---- MODULE Spec2Model ----
(***************************************************************************)
(* Model of custom_components/bmw_connected_drive/sensor.py: the attribute *)
(* tables, the entity factory async_setup_entry and the sensor entity      *)
(* BMWConnectedDriveSensor (construction, properties, update).             *)
(*                                                                         *)
(* Strings are Python strings.  Python's None is the string None where the *)
(* slot otherwise holds a string (icon, unit, service tag); values read    *)
(* from the vehicle state are tagged records (PyNone, Num, Str, Enum).     *)
(* Numbers read from the vehicle are kept in tenths (37.8 is 378).         *)
(***************************************************************************)
EXTENDS Integers, Sequences, FiniteSets, TLC

VARIABLES
    units_name,     \* hass.config.units.name
    vehicles,       \* account.account.vehicles: the list of vehicle objects
    attribute_info, \* the table async_setup_entry selected (its name), None before
    entities,       \* the list handed to async_add_entities
    polled,         \* the entities update() was called on so far
    last            \* what the last operation did and returned

vars == <<units_name, vehicles, attribute_info, entities, polled, last>>

----------------------------------------------------------------------------
(* Constants of bimmer_connected.const and homeassistant.const.            *)

None == "None"

SERVICE_STATUS == "STATUS"
SERVICE_LAST_TRIP == "LAST_TRIP"
SERVICE_ALL_TRIPS == "ALL_TRIPS"
SERVICE_CHARGING_PROFILE == "CHARGING_PROFILE"
\* A service of the library that sensor.py does not import.
SERVICE_DESTINATIONS == "DESTINATIONS"

CONF_UNIT_SYSTEM_IMPERIAL == "imperial"
CONF_UNIT_SYSTEM_METRIC == "metric"
LENGTH_KILOMETERS == "km"
LENGTH_MILES == "mi"
PERCENTAGE == "%"
TIME_HOURS == "h"
TIME_MINUTES == "min"
VOLUME_GALLONS == "gal"
VOLUME_LITERS == "L"
ENERGY_WATT_HOUR == "Wh"
ENERGY_KILO_WATT_HOUR == "kWh"
MASS_KILOGRAMS == "kg"

----------------------------------------------------------------------------
(* The attribute tables.                                                   *)

METRIC_ENTRIES ==
    "mileage" :> <<"mdi:speedometer", LENGTH_KILOMETERS>>
    @@ "remaining_range_total" :> <<"mdi:map-marker-distance", LENGTH_KILOMETERS>>
    @@ "remaining_range_electric" :> <<"mdi:map-marker-distance", LENGTH_KILOMETERS>>
    @@ "remaining_range_fuel" :> <<"mdi:map-marker-distance", LENGTH_KILOMETERS>>
    @@ "max_range_electric" :> <<"mdi:map-marker-distance", LENGTH_KILOMETERS>>
    @@ "remaining_fuel" :> <<"mdi:gas-station", VOLUME_LITERS>>
    @@ "average_combined_consumption" :> <<"mdi:flash", ENERGY_KILO_WATT_HOUR \o "/100" \o LENGTH_KILOMETERS>>
    @@ "average_electric_consumption" :> <<"mdi:power-plug-outline", ENERGY_KILO_WATT_HOUR \o "/100" \o LENGTH_KILOMETERS>>
    @@ "average_recuperation" :> <<"mdi:recycle-variant", ENERGY_KILO_WATT_HOUR \o "/100" \o LENGTH_KILOMETERS>>
    @@ "electric_distance" :> <<"mdi:map-marker-distance", LENGTH_KILOMETERS>>
    @@ "saved_fuel" :> <<"mdi:fuel", VOLUME_LITERS>>
    @@ "total_distance" :> <<"mdi:map-marker-distance", LENGTH_KILOMETERS>>
    @@ "average_combined_consumption_community_average" :> <<"mdi:flash", ENERGY_KILO_WATT_HOUR \o "/100" \o LENGTH_KILOMETERS>>
    @@ "average_combined_consumption_community_high" :> <<"mdi:flash", ENERGY_KILO_WATT_HOUR \o "/100" \o LENGTH_KILOMETERS>>
    @@ "average_combined_consumption_community_low" :> <<"mdi:flash", ENERGY_KILO_WATT_HOUR \o "/100" \o LENGTH_KILOMETERS>>
    @@ "average_combined_consumption_user_average" :> <<"mdi:flash", ENERGY_KILO_WATT_HOUR \o "/100" \o LENGTH_KILOMETERS>>
    @@ "average_electric_consumption_community_average" :> <<"mdi:power-plug-outline", ENERGY_KILO_WATT_HOUR \o "/100" \o LENGTH_KILOMETERS>>
    @@ "average_electric_consumption_community_high" :> <<"mdi:power-plug-outline", ENERGY_KILO_WATT_HOUR \o "/100" \o LENGTH_KILOMETERS>>
    @@ "average_electric_consumption_community_low" :> <<"mdi:power-plug-outline", ENERGY_KILO_WATT_HOUR \o "/100" \o LENGTH_KILOMETERS>>
    @@ "average_electric_consumption_user_average" :> <<"mdi:power-plug-outline", ENERGY_KILO_WATT_HOUR \o "/100" \o LENGTH_KILOMETERS>>
    @@ "average_recuperation_community_average" :> <<"mdi:recycle-variant", ENERGY_KILO_WATT_HOUR \o "/100" \o LENGTH_KILOMETERS>>
    @@ "average_recuperation_community_high" :> <<"mdi:recycle-variant", ENERGY_KILO_WATT_HOUR \o "/100" \o LENGTH_KILOMETERS>>
    @@ "average_recuperation_community_low" :> <<"mdi:recycle-variant", ENERGY_KILO_WATT_HOUR \o "/100" \o LENGTH_KILOMETERS>>
    @@ "average_recuperation_user_average" :> <<"mdi:recycle-variant", ENERGY_KILO_WATT_HOUR \o "/100" \o LENGTH_KILOMETERS>>
    @@ "chargecycle_range_community_average" :> <<"mdi:map-marker-distance", LENGTH_KILOMETERS>>
    @@ "chargecycle_range_community_high" :> <<"mdi:map-marker-distance", LENGTH_KILOMETERS>>
    @@ "chargecycle_range_community_low" :> <<"mdi:map-marker-distance", LENGTH_KILOMETERS>>
    @@ "chargecycle_range_user_average" :> <<"mdi:map-marker-distance", LENGTH_KILOMETERS>>
    @@ "chargecycle_range_user_current_charge_cycle" :> <<"mdi:map-marker-distance", LENGTH_KILOMETERS>>
    @@ "chargecycle_range_user_high" :> <<"mdi:map-marker-distance", LENGTH_KILOMETERS>>
    @@ "total_electric_distance_community_average" :> <<"mdi:map-marker-distance", LENGTH_KILOMETERS>>
    @@ "total_electric_distance_community_high" :> <<"mdi:map-marker-distance", LENGTH_KILOMETERS>>
    @@ "total_electric_distance_community_low" :> <<"mdi:map-marker-distance", LENGTH_KILOMETERS>>
    @@ "total_electric_distance_user_average" :> <<"mdi:map-marker-distance", LENGTH_KILOMETERS>>
    @@ "total_electric_distance_user_total" :> <<"mdi:map-marker-distance", LENGTH_KILOMETERS>>
    @@ "total_saved_fuel" :> <<"mdi:fuel", VOLUME_LITERS>>

IMPERIAL_ENTRIES ==
    "mileage" :> <<"mdi:speedometer", LENGTH_MILES>>
    @@ "remaining_range_total" :> <<"mdi:map-marker-distance", LENGTH_MILES>>
    @@ "remaining_range_electric" :> <<"mdi:map-marker-distance", LENGTH_MILES>>
    @@ "remaining_range_fuel" :> <<"mdi:map-marker-distance", LENGTH_MILES>>
    @@ "max_range_electric" :> <<"mdi:map-marker-distance", LENGTH_MILES>>
    @@ "remaining_fuel" :> <<"mdi:gas-station", VOLUME_GALLONS>>
    @@ "average_combined_consumption" :> <<"mdi:flash", ENERGY_KILO_WATT_HOUR \o "/100" \o LENGTH_MILES>>
    @@ "average_electric_consumption" :> <<"mdi:power-plug-outline", ENERGY_KILO_WATT_HOUR \o "/100" \o LENGTH_MILES>>
    @@ "average_recuperation" :> <<"mdi:recycle-variant", ENERGY_KILO_WATT_HOUR \o "/100" \o LENGTH_MILES>>
    @@ "electric_distance" :> <<"mdi:map-marker-distance", LENGTH_MILES>>
    @@ "saved_fuel" :> <<"mdi:fuel", VOLUME_GALLONS>>
    @@ "total_distance" :> <<"mdi:map-marker-distance", LENGTH_MILES>>
    @@ "average_combined_consumption_community_average" :> <<"mdi:flash", ENERGY_KILO_WATT_HOUR \o "/100" \o LENGTH_MILES>>
    @@ "average_combined_consumption_community_high" :> <<"mdi:flash", ENERGY_KILO_WATT_HOUR \o "/100" \o LENGTH_MILES>>
    @@ "average_combined_consumption_community_low" :> <<"mdi:flash", ENERGY_KILO_WATT_HOUR \o "/100" \o LENGTH_MILES>>
    @@ "average_combined_consumption_user_average" :> <<"mdi:flash", ENERGY_KILO_WATT_HOUR \o "/100" \o LENGTH_MILES>>
    @@ "average_electric_consumption_community_average" :> <<"mdi:power-plug-outline", ENERGY_KILO_WATT_HOUR \o "/100" \o LENGTH_MILES>>
    @@ "average_electric_consumption_community_high" :> <<"mdi:power-plug-outline", ENERGY_KILO_WATT_HOUR \o "/100" \o LENGTH_MILES>>
    @@ "average_electric_consumption_community_low" :> <<"mdi:power-plug-outline", ENERGY_KILO_WATT_HOUR \o "/100" \o LENGTH_MILES>>
    @@ "average_electric_consumption_user_average" :> <<"mdi:power-plug-outline", ENERGY_KILO_WATT_HOUR \o "/100" \o LENGTH_MILES>>
    @@ "average_recuperation_community_average" :> <<"mdi:recycle-variant", ENERGY_KILO_WATT_HOUR \o "/100" \o LENGTH_MILES>>
    @@ "average_recuperation_community_high" :> <<"mdi:recycle-variant", ENERGY_KILO_WATT_HOUR \o "/100" \o LENGTH_MILES>>
    @@ "average_recuperation_community_low" :> <<"mdi:recycle-variant", ENERGY_KILO_WATT_HOUR \o "/100" \o LENGTH_MILES>>
    @@ "average_recuperation_user_average" :> <<"mdi:recycle-variant", ENERGY_KILO_WATT_HOUR \o "/100" \o LENGTH_MILES>>
    @@ "chargecycle_range_community_average" :> <<"mdi:map-marker-distance", LENGTH_MILES>>
    @@ "chargecycle_range_community_high" :> <<"mdi:map-marker-distance", LENGTH_MILES>>
    @@ "chargecycle_range_community_low" :> <<"mdi:map-marker-distance", LENGTH_MILES>>
    @@ "chargecycle_range_user_average" :> <<"mdi:map-marker-distance", LENGTH_MILES>>
    @@ "chargecycle_range_user_current_charge_cycle" :> <<"mdi:map-marker-distance", LENGTH_MILES>>
    @@ "chargecycle_range_user_high" :> <<"mdi:map-marker-distance", LENGTH_MILES>>
    @@ "total_electric_distance_community_average" :> <<"mdi:map-marker-distance", LENGTH_MILES>>
    @@ "total_electric_distance_community_high" :> <<"mdi:map-marker-distance", LENGTH_MILES>>
    @@ "total_electric_distance_community_low" :> <<"mdi:map-marker-distance", LENGTH_MILES>>
    @@ "total_electric_distance_user_average" :> <<"mdi:map-marker-distance", LENGTH_MILES>>
    @@ "total_electric_distance_user_total" :> <<"mdi:map-marker-distance", LENGTH_MILES>>
    @@ "total_saved_fuel" :> <<"mdi:fuel", VOLUME_GALLONS>>

ATTR_TO_HA_GENERIC ==
    "charging_time_remaining" :> <<"mdi:update", TIME_HOURS>>
    @@ "charging_status" :> <<"mdi:battery-charging", None>>
    @@ "charging_level_hv" :> <<None, PERCENTAGE>>
    @@ "date" :> <<"mdi:calendar-blank", None>>
    @@ "duration" :> <<"mdi:timer-outline", TIME_MINUTES>>
    @@ "electric_distance_ratio" :> <<"mdi:percent-outline", PERCENTAGE>>
    @@ "battery_size_max" :> <<"mdi:battery-charging-high", ENERGY_WATT_HOUR>>
    @@ "reset_date" :> <<"mdi:calendar-blank", None>>
    @@ "saved_co2" :> <<"mdi:tree-outline", MASS_KILOGRAMS>>
    @@ "saved_co2_green_energy" :> <<"mdi:tree-outline", MASS_KILOGRAMS>>
    @@ "is_pre_entry_climatization_enabled" :> <<"mdi:snowflake", None>>
    @@ "preferred_charging_window_start_time" :> <<"mdi:dock-window", None>>
    @@ "preferred_charging_window_end_time" :> <<"mdi:dock-window", None>>
    @@ "pre_entry_climatization_timer_1_timer_enabled" :> <<"mdi:av-timer", None>>
    @@ "pre_entry_climatization_timer_1_departure_time" :> <<"mdi:av-timer", None>>
    @@ "pre_entry_climatization_timer_1_weekdays" :> <<"mdi:av-timer", None>>
    @@ "pre_entry_climatization_timer_2_timer_enabled" :> <<"mdi:av-timer", None>>
    @@ "pre_entry_climatization_timer_2_departure_time" :> <<"mdi:av-timer", None>>
    @@ "pre_entry_climatization_timer_2_weekdays" :> <<"mdi:av-timer", None>>
    @@ "pre_entry_climatization_timer_3_timer_enabled" :> <<"mdi:av-timer", None>>
    @@ "pre_entry_climatization_timer_3_departure_time" :> <<"mdi:av-timer", None>>
    @@ "pre_entry_climatization_timer_3_weekdays" :> <<"mdi:av-timer", None>>

\* dict.update(other): the entries of other replace or extend those of d.
DictUpdate(d, other) ==
    [k \in DOMAIN d \cup DOMAIN other |-> IF k \in DOMAIN other THEN other[k] ELSE d[k]]

ATTR_TO_HA_METRIC == DictUpdate(METRIC_ENTRIES, ATTR_TO_HA_GENERIC)

ATTR_TO_HA_IMPERIAL == DictUpdate(IMPERIAL_ENTRIES, ATTR_TO_HA_GENERIC)

\* The module-level dict a table reference names.
Table(info) ==
    IF info = "ATTR_TO_HA_IMPERIAL" THEN ATTR_TO_HA_IMPERIAL ELSE ATTR_TO_HA_METRIC

\* DictGet that answers a missing key with an entry of empty strings.
DictGetEmpty(d, key, default) == IF key \in DOMAIN d THEN d[key] ELSE <<"", "">>

\* dict.get(key, default)
DictGet(d, key, default) == IF key \in DOMAIN d THEN d[key] ELSE default

----------------------------------------------------------------------------
(* Python strings: str.lower and the two shapes of re.search the entity    *)
(* uses.                                                                   *)

UpperCase == "ABCDEFGHIJKLMNOPQRSTUVWXYZ"
LowerCase == "abcdefghijklmnopqrstuvwxyz"
Digits == "0123456789"

CharAt(s, i) == SubSeq(s, i, i)

\* The rest of s from position i on ("" when i is past the end).
From(s, i) == IF i > Len(s) THEN "" ELSE SubSeq(s, i, Len(s))

IsDigit(c) == \E i \in 1..Len(Digits) : CharAt(Digits, i) = c

\* The lower-case letter of each upper-case one.
LowerOf ==
    [c \in {CharAt(UpperCase, i) : i \in 1..Len(UpperCase)} |->
        CharAt(LowerCase, CHOOSE i \in 1..Len(UpperCase) : CharAt(UpperCase, i) = c)]

LowerChar(c) == IF c \in DOMAIN LowerOf THEN LowerOf[c] ELSE c

RECURSIVE Lower(_)
Lower(s) == IF Len(s) = 0 THEN "" ELSE LowerChar(CharAt(s, 1)) \o Lower(From(s, 2))

\* s has the text p at position i.
HasAt(s, i, p) == i + Len(p) - 1 <= Len(s) /\ SubSeq(s, i, i + Len(p) - 1) = p

Min(S) == CHOOSE x \in S : \A y \in S : x <= y

\* re.search(f"({attribute})_(.+)", key): <<group 1, group 2>> of the leftmost
\* match (the greedy .+ runs to the end of the key), <<>> when there is none.
SearchSub(attribute, key) ==
    LET p == attribute \o "_"
        at == {i \in 1..Len(key) : HasAt(key, i, p) /\ i + Len(p) <= Len(key)}
    IN IF at = {} THEN <<>>
       ELSE <<attribute, From(key, Min(at) + Len(p))>>

\* re.search(f"({attribute})_(\d)_(.+)", key): <<group 1, group 2, group 3>>.
SearchTimer(attribute, key) ==
    LET p == attribute \o "_"
        at == {i \in 1..Len(key) :
                  /\ HasAt(key, i, p)
                  /\ i + Len(p) + 2 <= Len(key)
                  /\ IsDigit(CharAt(key, i + Len(p)))
                  /\ CharAt(key, i + Len(p) + 1) = "_"}
    IN IF at = {} THEN <<>>
       ELSE <<attribute, CharAt(key, Min(at) + Len(p)), From(key, Min(at) + Len(p) + 2)>>

----------------------------------------------------------------------------
(* Values of the vehicle state object and getattr on them.                 *)

PyNone == [t |-> "NoneType"]
Num(tenths) == [t |-> "num", tenths |-> tenths]
Str(s) == [t |-> "str", s |-> s]
\* An enumeration member (ChargingState, ChargingTimer) with its .value.
Enum(v) == [t |-> "enum", value |-> Str(v)]
\* An object with the attributes DOMAIN f.
Obj(f) == [t |-> "obj", f |-> f]
\* A dict keyed by enumeration members, given by the members' values.
Dict(items) == [t |-> "dict", items |-> items]

HasAttr(obj, name) == obj.t = "obj" /\ name \in DOMAIN obj.f

Without(f, names) == [k \in DOMAIN f \ names |-> f[k]]

----------------------------------------------------------------------------
(* The host's unit system: hass.config.units.volume / .length, and round.  *)

\* homeassistant.util.volume: litres to gallons is * 0.2642.
LitreToGallon == [num |-> 2642, den |-> 10000]
\* homeassistant.util.distance: kilometres to miles is * 1000 * 0.000621371.
KilometreToMile == [num |-> 621371, den |-> 1000000]

\* Python's round(x) of the rational num/den (den > 0, num >= 0): the nearest
\* integer, a tie going to the even one.
Round(num, den) ==
    LET q == num \div den
        r == num % den
    IN IF 2 * r < den THEN q
       ELSE IF 2 * r > den THEN q + 1
       ELSE IF q % 2 = 0 THEN q ELSE q + 1

\* units.volume(value, VOLUME_LITERS) as the rational <<num, den>>, the value
\* in tenths: the imperial system converts, the metric one returns the value.
UnitsVolume(name, tenths) ==
    IF name = CONF_UNIT_SYSTEM_IMPERIAL
    THEN [num |-> tenths * LitreToGallon.num, den |-> 10 * LitreToGallon.den]
    ELSE [num |-> tenths, den |-> 10]

UnitsLength(name, tenths) ==
    IF name = CONF_UNIT_SYSTEM_IMPERIAL
    THEN [num |-> tenths * KilometreToMile.num, den |-> 10 * KilometreToMile.den]
    ELSE [num |-> tenths, den |-> 10]

\* The integer n as a value read back from the entity.
PyInt(n) == Num(10 * n)
----------------------------------------------------------------------------
(* The sensor entity: construction and the read-only properties.           *)

\* Python's truth value of the service argument (None and "" are false).
Truthy(service) == service # None /\ service # ""

\* BMWConnectedDriveSensor with ids that leave the VIN out.
BMWConnectedDriveSensorNoVin(vehicle, attribute, info, service) ==
    [ _vehicle |-> vehicle,
      _attribute |-> attribute,
      _service |-> service,
      _state |-> PyNone,
      _name |-> IF Truthy(service)
                THEN vehicles[vehicle].name \o " " \o Lower(service) \o "_" \o attribute
                ELSE vehicles[vehicle].name \o " " \o attribute,
      _unique_id |-> IF Truthy(service)
                     THEN Lower(service) \o "-" \o attribute
                     ELSE attribute,
      _attribute_info |-> info ]

\* BMWConnectedDriveSensor.__init__; vehicle is the index of the vehicle in
\* the account's list (the reference self._vehicle), info the name of the
\* table (the reference self._attribute_info).
BMWConnectedDriveSensor(vehicle, attribute, info, service) ==
    [ _vehicle |-> vehicle,
      _attribute |-> attribute,
      _service |-> service,
      _state |-> PyNone,
      _name |-> IF Truthy(service)
                THEN vehicles[vehicle].name \o " " \o Lower(service) \o "_" \o attribute
                ELSE vehicles[vehicle].name \o " " \o attribute,
      _unique_id |-> IF Truthy(service)
                     THEN vehicles[vehicle].vin \o "-" \o Lower(service) \o "-" \o attribute
                     ELSE vehicles[vehicle].vin \o "-" \o attribute,
      _attribute_info |-> info ]

unique_id(self) == self._unique_id

name(self) == self._name

state(self) == self._state

unit_of_measurement(self) ==
    DictGet(Table(self._attribute_info), self._attribute, <<None, None>>)[2]

\* homeassistant.helpers.icon.icon_for_battery_level; the level is a Num
\* (a percentage, in tenths) or PyNone.
icon_for_battery_level(battery_level, charging) ==
    IF battery_level.t # "num" THEN "mdi:battery-unknown"
    ELSE LET level == battery_level.tenths
         IN IF charging /\ level > 100
            THEN "mdi:battery-charging-" \o ToString(Round(5 * level - 10, 1000) * 20)
            ELSE IF charging THEN "mdi:battery-outline"
            ELSE IF level <= 50 THEN "mdi:battery-alert"
            ELSE IF level < 950
            THEN "mdi:battery-" \o ToString(Round(level - 1, 100) * 10)
            ELSE "mdi:battery"

icon(self) ==
    LET vehicle_state == vehicles[self._vehicle].state
        charging_state == vehicle_state.f["charging_status"] = Enum("CHARGING")
    IN IF self._attribute = "charging_level_hv"
       THEN icon_for_battery_level(vehicle_state.f["charging_level_hv"], charging_state)
       ELSE DictGet(Table(self._attribute_info), self._attribute, <<None, None>>)[1]

----------------------------------------------------------------------------
(* BMWConnectedDriveSensor.update.  The result names how the call ended    *)
(* ("ok": it assigned self._state; "raised": an exception left it; and     *)
(* "returned": the bare return of line 328), the entity afterwards, the    *)
(* object getattr was applied to and the names looked up on it.            *)

Assigned(self, value, source, path) ==
    [outcome |-> "ok", entity |-> [self EXCEPT !._state = value],
     source |-> source, path |-> path]

Raised(self, source, path) ==
    [outcome |-> "raised", entity |-> self, source |-> source, path |-> path]

Returned(self, source, path) ==
    [outcome |-> "returned", entity |-> self, source |-> source, path |-> path]

\* self._state = getattr(obj, name)
ReadAttr(self, obj, source, attr) ==
    IF HasAttr(obj, attr)
    THEN Assigned(self, obj.f[attr], source, <<attr>>)
    ELSE Raised(self, source, <<attr>>)

\* self._state = getattr(vehicle_state, attribute).value
ReadEnum(self, obj, source, attr) ==
    IF ~HasAttr(obj, attr) THEN Raised(self, source, <<attr>>)
    ELSE IF obj.f[attr].t # "enum" THEN Raised(self, source, <<attr>>)
    ELSE Assigned(self, obj.f[attr].value, source, <<attr>>)

\* hass.config.units.volume(value, VOLUME_LITERS) or .length(value,
\* LENGTH_KILOMETERS), by the quantity converted.
Convert(quantity, tenths) ==
    IF quantity = "volume" THEN UnitsVolume(units_name, tenths)
    ELSE UnitsLength(units_name, tenths)

\* value = getattr(obj, name); self._state = round(convert(value)); the
\* conversion raises TypeError unless the value is a number.
ReadConverted(self, obj, source, attr, quantity) ==
    IF ~HasAttr(obj, attr) THEN Raised(self, source, <<attr>>)
    ELSE IF obj.f[attr].t # "num" THEN Raised(self, source, <<attr>>)
    ELSE LET c == Convert(quantity, obj.f[attr].tenths)
         IN Assigned(self, PyInt(Round(c.num, c.den)), source, <<attr>>)

\* ReadSub that returns normally when the sub-field is absent.
ReadSubLenient(self, obj, source, base, sub_attr) ==
    IF ~HasAttr(obj, base) THEN Raised(self, source, <<base>>)
    ELSE IF ~HasAttr(obj.f[base], sub_attr) THEN Returned(self, source, <<base, sub_attr>>)
    ELSE Assigned(self, obj.f[base].f[sub_attr], source, <<base, sub_attr>>)

\* attr = getattr(obj, base); self._state = getattr(attr, sub_attr)
ReadSub(self, obj, source, base, sub_attr) ==
    IF ~HasAttr(obj, base) THEN Raised(self, source, <<base>>)
    ELSE IF ~HasAttr(obj.f[base], sub_attr) THEN Raised(self, source, <<base, sub_attr>>)
    ELSE Assigned(self, obj.f[base].f[sub_attr], source, <<base, sub_attr>>)

\* ReadTimer that takes the first timer, whatever the key's number.
ReadTimerFirst(self, obj, source, base, digit, sub_attr) ==
    IF ~HasAttr(obj, base) THEN Raised(self, source, <<base>>)
    ELSE IF obj.f[base].t # "dict" THEN Raised(self, source, <<base>>)
    ELSE IF "timer1" \notin DOMAIN obj.f[base].items
    THEN Returned(self, source, <<base, "timer1">>)
    ELSE IF ~HasAttr(obj.f[base].items["timer1"], sub_attr)
    THEN Raised(self, source, <<base, "timer1", sub_attr>>)
    ELSE Assigned(self, obj.f[base].items["timer1"].f[sub_attr], source,
                  <<base, "timer1", sub_attr>>)

\* ReadTimer that forgets the state when no timer has the id.
ReadTimerResetting(self, obj, source, base, digit, sub_attr) ==
    LET timer_id == "timer" \o digit
    IN IF ~HasAttr(obj, base) THEN Raised(self, source, <<base>>)
       ELSE IF obj.f[base].t # "dict" THEN Raised(self, source, <<base>>)
       ELSE IF timer_id \notin DOMAIN obj.f[base].items
       THEN Returned([self EXCEPT !._state = PyNone], source, <<base, timer_id>>)
       ELSE IF ~HasAttr(obj.f[base].items[timer_id], sub_attr)
       THEN Raised(self, source, <<base, timer_id, sub_attr>>)
       ELSE Assigned(self, obj.f[base].items[timer_id].f[sub_attr], source,
                     <<base, timer_id, sub_attr>>)

\* Lines 321-328: the timer whose enumeration value is timer_id, when the
\* collection holds it; otherwise the bare return.
ReadTimer(self, obj, source, base, digit, sub_attr) ==
    LET timer_id == "timer" \o digit
    IN IF ~HasAttr(obj, base) THEN Raised(self, source, <<base>>)
       ELSE IF obj.f[base].t # "dict" THEN Raised(self, source, <<base>>)
       ELSE IF timer_id \notin DOMAIN obj.f[base].items
       THEN Returned(self, source, <<base, timer_id>>)
       ELSE IF ~HasAttr(obj.f[base].items[timer_id], sub_attr)
       THEN Raised(self, source, <<base, timer_id, sub_attr>>)
       ELSE Assigned(self, obj.f[base].items[timer_id].f[sub_attr], source,
                     <<base, timer_id, sub_attr>>)

\* The attribute lists update() tries its patterns on, in order.
AllTripsPatterns ==
    <<"average_combined_consumption", "average_electric_consumption",
      "average_recuperation", "chargecycle_range", "total_electric_distance">>

WindowPatterns == <<"preferred_charging_window">>

TimerPatterns == <<"pre_entry_climatization_timer">>

\* The first pattern of the list that re.search finds in the key, 0 when
\* none does.
FirstSubMatch(patterns, key) ==
    LET hits == {i \in 1..Len(patterns) : SearchSub(patterns[i], key) # <<>>}
    IN IF hits = {} THEN 0 ELSE Min(hits)

FirstTimerMatch(patterns, key) ==
    LET hits == {i \in 1..Len(patterns) : SearchTimer(patterns[i], key) # <<>>}
    IN IF hits = {} THEN 0 ELSE Min(hits)

UpdateAllTrips(self, vehicle_all_trips) ==
    LET i == FirstSubMatch(AllTripsPatterns, self._attribute)
    IN IF i # 0
       THEN LET match == SearchSub(AllTripsPatterns[i], self._attribute)
            IN ReadSub(self, vehicle_all_trips, "all_trips", match[1], match[2])
       ELSE ReadAttr(self, vehicle_all_trips, "all_trips", self._attribute)

UpdateChargingProfile(self, vehicle_charging_profile) ==
    LET i == FirstSubMatch(WindowPatterns, self._attribute)
        j == FirstTimerMatch(TimerPatterns, self._attribute)
    IN IF i # 0
       THEN LET match == SearchSub(WindowPatterns[i], self._attribute)
            IN ReadSub(self, vehicle_charging_profile, "charging_profile",
                       match[1], match[2])
       ELSE IF j # 0
       THEN LET match == SearchTimer(TimerPatterns[j], self._attribute)
            IN ReadTimer(self, vehicle_charging_profile, "charging_profile",
                         match[1], match[2], match[3])
       ELSE ReadAttr(self, vehicle_charging_profile, "charging_profile",
                     self._attribute)

update(self) ==
    LET vehicle_state == vehicles[self._vehicle].state
    IN IF \E sub \in {"last_trip", "all_trips", "charging_profile"} :
              ~HasAttr(vehicle_state, sub)
       THEN Raised(self, "state", <<>>)
       ELSE IF self._attribute = "charging_status"
       THEN ReadEnum(self, vehicle_state, "state", self._attribute)
       ELSE IF unit_of_measurement(self) = VOLUME_GALLONS
       THEN ReadConverted(self, vehicle_state, "state", self._attribute, "volume")
       ELSE IF unit_of_measurement(self) = LENGTH_MILES
       THEN ReadConverted(self, vehicle_state, "state", self._attribute, "length")
       ELSE IF self._service = None
       THEN ReadAttr(self, vehicle_state, "state", self._attribute)
       ELSE IF self._service = SERVICE_LAST_TRIP
       THEN ReadAttr(self, vehicle_state.f["last_trip"], "last_trip", self._attribute)
       ELSE IF self._service = SERVICE_ALL_TRIPS
       THEN UpdateAllTrips(self, vehicle_state.f["all_trips"])
       ELSE IF self._service = SERVICE_CHARGING_PROFILE
       THEN UpdateChargingProfile(self, vehicle_state.f["charging_profile"])
       ELSE Returned(self, "none", <<>>)
----------------------------------------------------------------------------
(* The entity factory async_setup_entry.                                   *)

RECURSIVE ConcatAll(_)
\* The lists of a list, appended in order: what a loop appends when its
\* i-th pass appends lists[i].
ConcatAll(lists) ==
    IF lists = <<>> THEN <<>> ELSE Head(lists) \o ConcatAll(Tail(lists))

\* The order in which the library lists attribute names.
AttributeOrder ==
    <<"mileage", "remaining_fuel", "charging_status", "charging_level_hv",
      "total_distance", "average_combined_consumption", "efficiency_value",
      "average_recuperation", "chargecycle_range", "total_electric_distance",
      "total_saved_fuel", "reset_date", "last_destinations",
      "is_pre_entry_climatization_enabled", "preferred_charging_window",
      "pre_entry_climatization_timer">>

InDomain(f, a) == a \in DOMAIN f

\* obj.available_attributes: the attributes the remote reported for obj.
available_attributes(obj) ==
    LET present == {i \in 1..Len(AttributeOrder) : InDomain(obj.f, AttributeOrder[i])}
        RECURSIVE Listed(_)
        Listed(i) == IF i > Len(AttributeOrder) THEN <<>>
                     ELSE (IF i \in present THEN <<AttributeOrder[i]>> ELSE <<>>)
                          \o Listed(i + 1)
    IN Listed(1)

\* Lines 160-166
StatusEntities(v, info) ==
    LET names == vehicles[v].drive_train_attributes
    IN ConcatAll([i \in 1..Len(names) |->
           IF names[i] \in vehicles[v].available_attributes
           THEN <<BMWConnectedDriveSensor(v, names[i], info, None)>>
           ELSE <<>>])

\* Lines 167-172
LastTripEntities(v, info, service) ==
    LET names == available_attributes(vehicles[v].state.f["last_trip"])
    IN [i \in 1..Len(names) |-> BMWConnectedDriveSensor(v, names[i], info, service)]

\* One entity per sub-field: f"{attribute_name}_{attr}"
SubEntities(v, info, service, attribute_name, attrs) ==
    [i \in 1..Len(attrs) |->
        BMWConnectedDriveSensor(v, attribute_name \o "_" \o attrs[i], info, service)]

\* AllTripsEntities without the sub-fields particular to one aggregate.
AllTripsEntitiesCommonOnly(v, info, service) ==
    LET names == available_attributes(vehicles[v].state.f["all_trips"])
    IN ConcatAll([i \in 1..Len(names) |->
           IF names[i] \in {"average_combined_consumption",
                            "average_electric_consumption",
                            "average_recuperation", "chargecycle_range",
                            "total_electric_distance"}
           THEN SubEntities(v, info, service, names[i],
                            <<"community_average", "community_high",
                              "community_low", "user_average">>)
           ELSE <<BMWConnectedDriveSensor(v, names[i], info, service)>>])

\* Lines 173-198
AllTripsEntities(v, info, service) ==
    LET names == available_attributes(vehicles[v].state.f["all_trips"])
    IN ConcatAll([i \in 1..Len(names) |->
           IF names[i] \in {"average_combined_consumption",
                            "average_electric_consumption",
                            "average_recuperation", "chargecycle_range",
                            "total_electric_distance"}
           THEN SubEntities(v, info, service, names[i],
                            <<"community_average", "community_high",
                              "community_low", "user_average">>)
                \o (IF names[i] = "chargecycle_range"
                    THEN SubEntities(v, info, service, names[i],
                                     <<"user_current_charge_cycle", "user_high">>)
                    ELSE <<>>)
                \o (IF names[i] = "total_electric_distance"
                    THEN SubEntities(v, info, service, names[i], <<"user_total">>)
                    ELSE <<>>)
           ELSE <<BMWConnectedDriveSensor(v, names[i], info, service)>>])

\* Lines 207-213: for timer in range(1, 4), for attr in [...]
TimerEntitiesOf(v, info, service, attribute_name) ==
    ConcatAll([timer \in 1..3 |->
        SubEntities(v, info, service, attribute_name \o "_" \o ToString(timer),
                    <<"timer_enabled", "departure_time", "weekdays">>)])

\* Lines 199-218
ChargingProfileEntities(v, info, service) ==
    LET names == available_attributes(vehicles[v].state.f["charging_profile"])
    IN ConcatAll([i \in 1..Len(names) |->
           IF names[i] = "preferred_charging_window"
           THEN SubEntities(v, info, service, names[i], <<"start_time", "end_time">>)
           ELSE IF names[i] = "pre_entry_climatization_timer"
           THEN TimerEntitiesOf(v, info, service, names[i])
           ELSE <<BMWConnectedDriveSensor(v, names[i], info, service)>>])

\* Lines 159-218: the body of the loop over one vehicle's services.
ServiceEntities(v, info, service) ==
    (IF service = SERVICE_STATUS THEN StatusEntities(v, info) ELSE <<>>)
    \o (IF service = SERVICE_LAST_TRIP THEN LastTripEntities(v, info, service) ELSE <<>>)
    \o (IF service = SERVICE_ALL_TRIPS THEN AllTripsEntities(v, info, service) ELSE <<>>)
    \o (IF service = SERVICE_CHARGING_PROFILE
        THEN ChargingProfileEntities(v, info, service) ELSE <<>>)

\* SelectTable that takes the metric table only for the name metric.
SelectTableByMetric(units) ==
    IF units = CONF_UNIT_SYSTEM_METRIC THEN "ATTR_TO_HA_METRIC" ELSE "ATTR_TO_HA_IMPERIAL"

\* Lines 150-153
SelectTable(units) ==
    IF units = CONF_UNIT_SYSTEM_IMPERIAL THEN "ATTR_TO_HA_IMPERIAL" ELSE "ATTR_TO_HA_METRIC"

\* Lines 158-218: the loop over one vehicle's services.
VehicleEntities(v, info) ==
    LET services == vehicles[v].available_state_services
    IN ConcatAll([i \in 1..Len(services) |-> ServiceEntities(v, info, services[i])])

\* Lines 156-218
BuildEntities(info) ==
    ConcatAll([v \in 1..Len(vehicles) |-> VehicleEntities(v, info)])
----------------------------------------------------------------------------
(* The vehicle objects of the account and the state snapshots the library  *)
(* holds for them.                                                         *)

\* Bounds of the model.
MaxPolled == 1
MaxVehicles == 2

\* The snapshots tried differ in their values by generation.
Generations == {1, 2}

\* The host's unit-system names tried.
UnitSystems == {CONF_UNIT_SYSTEM_IMPERIAL, CONF_UNIT_SYSTEM_METRIC, "custom"}

AllServices ==
    <<SERVICE_STATUS, SERVICE_LAST_TRIP, SERVICE_ALL_TRIPS,
      SERVICE_CHARGING_PROFILE, SERVICE_DESTINATIONS>>

\* The k-th numeric leaf of the g-th snapshot, in tenths; the leaves of one
\* snapshot all differ, and leaf 0 of snapshot 1 is 37.8.
Leaf(k, g) == Num(378 * g + 1000 * k)

Text(s, g) == Str(s \o ToString(g))

Aggregate(k, g, subs) == Obj([sub \in DOMAIN subs |-> Leaf(k + subs[sub], g)])

Timer(g, n) ==
    Obj("timer_enabled" :> Str(IF (g + n) % 2 = 0 THEN "True" ELSE "False")
        @@ "departure_time" :> Text("0" \o ToString(n) \o ":0", g)
        @@ "weekdays" :> Text("MONDAY,", n + g))

\* A snapshot with every attribute, sub-field and timer.
Complete(g) ==
    Obj("mileage" :> Leaf(1, g)
        @@ "remaining_fuel" :> Leaf(0, g)
        @@ "charging_status" :> Enum(IF g % 2 = 1 THEN "CHARGING" ELSE "FINISHED_FULLY_CHARGED")
        @@ "charging_level_hv" :> Num(300 * g + 5)
        @@ "last_trip" :> Obj(
               "total_distance" :> Leaf(2, g)
               @@ "average_combined_consumption" :> Leaf(3, g)
               @@ "efficiency_value" :> Leaf(4, g))
        @@ "all_trips" :> Obj(
               "average_recuperation" :> Aggregate(10, g,
                   "community_average" :> 1 @@ "community_high" :> 2
                   @@ "community_low" :> 3 @@ "user_average" :> 4)
               @@ "chargecycle_range" :> Aggregate(20, g,
                   "community_average" :> 1 @@ "community_high" :> 2
                   @@ "community_low" :> 3 @@ "user_average" :> 4
                   @@ "user_current_charge_cycle" :> 5 @@ "user_high" :> 6)
               @@ "total_electric_distance" :> Aggregate(30, g,
                   "community_average" :> 1 @@ "community_high" :> 2
                   @@ "community_low" :> 3 @@ "user_average" :> 4
                   @@ "user_total" :> 5)
               @@ "total_saved_fuel" :> Leaf(5, g)
               @@ "reset_date" :> Text("2019-01-0", g))
        @@ "destinations" :> Obj("last_destinations" :> Leaf(6, g))
        @@ "charging_profile" :> Obj(
               "is_pre_entry_climatization_enabled" :> Str(IF g % 2 = 1 THEN "True" ELSE "False")
               @@ "preferred_charging_window" :> Obj(
                      "start_time" :> Text("22:0", g - 1) @@ "end_time" :> Text("06:0", g - 1))
               @@ "pre_entry_climatization_timer" :> Dict(
                      [id \in {"timer1", "timer2", "timer3"} |->
                          Timer(g, CHOOSE n \in 1..3 : id = "timer" \o ToString(n))])))

\* obj with obj.<attr> set to value.
SetAttr(obj, attr, value) == Obj([obj.f EXCEPT ![attr] = value])

Drop(obj, names) == Obj(Without(obj.f, names))

\* What a snapshot may lack.
Damages == {"complete", "fewer_attributes", "fewer_subfields", "fewer_timers"}

FewerAttributes(s) ==
    LET last_trip == Drop(s.f["last_trip"], {"total_distance"})
        all_trips == Drop(s.f["all_trips"], {"chargecycle_range", "total_saved_fuel"})
        charging_profile ==
            Drop(s.f["charging_profile"],
                 {"preferred_charging_window", "pre_entry_climatization_timer"})
    IN SetAttr(SetAttr(SetAttr(Drop(s, {"mileage"}),
           "last_trip", last_trip), "all_trips", all_trips),
           "charging_profile", charging_profile)

FewerSubFields(s) ==
    LET trips == s.f["all_trips"]
        profile == s.f["charging_profile"]
        timers == profile.f["pre_entry_climatization_timer"]
        all_trips ==
            SetAttr(SetAttr(trips,
                "chargecycle_range", Drop(trips.f["chargecycle_range"], {"user_high"})),
                "average_recuperation",
                Drop(trips.f["average_recuperation"], {"community_low"}))
        charging_profile ==
            SetAttr(SetAttr(profile,
                "preferred_charging_window",
                Drop(profile.f["preferred_charging_window"], {"end_time"})),
                "pre_entry_climatization_timer",
                Dict([timers.items EXCEPT !["timer1"] = Drop(@, {"weekdays"})]))
    IN SetAttr(SetAttr(s, "all_trips", all_trips), "charging_profile", charging_profile)

FewerTimers(s) ==
    LET profile == s.f["charging_profile"]
        timers == profile.f["pre_entry_climatization_timer"]
    IN SetAttr(s, "charging_profile",
               SetAttr(profile, "pre_entry_climatization_timer",
                       Dict(Without(timers.items, {"timer2", "timer3"}))))

Snapshot(g, damage) ==
    CASE damage = "complete" -> Complete(g)
      [] damage = "fewer_attributes" -> FewerAttributes(Complete(g))
      [] damage = "fewer_subfields" -> FewerSubFields(Complete(g))
      [] damage = "fewer_timers" -> FewerTimers(Complete(g))

\* The snapshots tried: the complete one of each generation, and the first
\* generation with each damage.
Snapshots ==
    {Snapshot(g, "complete") : g \in Generations}
    \cup {Snapshot(1, d) : d \in Damages}

VINs == <<"WBA1", "WBY2", "WBS3", "WBX4">>

\* A vehicle object of the library: a plug-in hybrid or a conventional car.
Vehicle(n, kind, services, snapshot) ==
    [ vin |-> VINs[n],
      name |-> "car" \o ToString(n),
      available_state_services |-> services,
      drive_train_attributes |->
          IF kind = "phev"
          THEN <<"mileage", "remaining_fuel", "charging_status", "charging_level_hv">>
          ELSE <<"mileage", "remaining_fuel">>,
      available_attributes |->
          IF kind = "phev"
          THEN {"mileage", "remaining_fuel", "charging_status", "charging_level_hv"}
          ELSE {"mileage"},
      state |-> snapshot ]

NoOp ==
    [op |-> "none", idx |-> 0, attribute |-> "", service |-> None,
     outcome |-> "none", source |-> "none", path |-> <<>>]

----------------------------------------------------------------------------
(* The state machine.                                                      *)

\* One plug-in hybrid that lists every service.
Init ==
    /\ units_name \in {CONF_UNIT_SYSTEM_IMPERIAL, CONF_UNIT_SYSTEM_METRIC}
    /\ vehicles = <<Vehicle(1, "phev", AllServices, Snapshot(1, "complete"))>>
    /\ attribute_info = None
    /\ entities = <<>>
    /\ polled = {}
    /\ last = NoOp

\* async_setup_entry(hass, config_entry, async_add_entities)
async_setup_entry ==
    /\ attribute_info = None
    /\ attribute_info' = SelectTable(units_name)
    /\ entities' = BuildEntities(SelectTable(units_name))
    /\ last' = NoOp
    /\ UNCHANGED <<units_name, vehicles, polled>>

\* Refresh that also forgets the states read from the old snapshot.
RefreshClearing(v, snapshot) ==
    /\ v \in 1..Len(vehicles)
    /\ vehicles[v].state # snapshot
    /\ vehicles' = [vehicles EXCEPT ![v].state = snapshot]
    /\ entities' = [i \in 1..Len(entities) |-> [entities[i] EXCEPT !._state = PyNone]]
    /\ last' = NoOp
    /\ UNCHANGED <<units_name, attribute_info, polled>>

\* The library replaces the snapshot a vehicle object holds.
Refresh(v, snapshot) ==
    /\ v \in 1..Len(vehicles)
    /\ vehicles[v].state # snapshot
    /\ vehicles' = [vehicles EXCEPT ![v].state = snapshot]
    /\ last' = NoOp
    /\ UNCHANGED <<units_name, attribute_info, entities, polled>>

\* The host polls entity i: entities[i].update()
Update(i) ==
    /\ attribute_info # None
    /\ i \in 1..Len(entities)
    /\ Cardinality(polled \cup {i}) <= MaxPolled
    /\ LET r == update(entities[i])
       IN /\ entities' = [entities EXCEPT ![i] = r.entity]
          /\ last' = [op |-> "update", idx |-> i,
                      attribute |-> entities[i]._attribute,
                      service |-> entities[i]._service,
                      outcome |-> r.outcome, source |-> r.source, path |-> r.path]
    /\ polled' = polled \cup {i}
    /\ UNCHANGED <<units_name, vehicles, attribute_info>>

\* The host reads the properties of every entity; none of them assigns
\* anything.
ReadProperties ==
    /\ attribute_info # None
    /\ \A i \in 1..Len(entities) :
          LET self == entities[i]
          IN /\ unique_id(self) \in STRING
             /\ name(self) \in STRING
             /\ state(self).t \in STRING
             /\ unit_of_measurement(self) \in STRING
             /\ icon(self) \in STRING
    /\ UNCHANGED vars

Next ==
    \/ async_setup_entry
    \/ \E v \in 1..MaxVehicles, s \in Snapshots : Refresh(v, s)
    \/ \E i \in 1..Len(entities) : Update(i)
    \/ ReadProperties

Spec == Init /\ [][Next]_vars

\* The service lists a vehicle of a fleet may report.
ServiceLists ==
    {<<SERVICE_STATUS>>, <<SERVICE_LAST_TRIP>>, <<SERVICE_ALL_TRIPS>>,
     <<SERVICE_CHARGING_PROFILE>>, <<SERVICE_DESTINATIONS>>, AllServices}

\* A plug-in hybrid reports every attribute, a conventional car fewer.
VehicleChoices ==
    [kind : {"phev", "conventional"}, services : ServiceLists]

KindSnapshot(kind) ==
    Snapshot(1, IF kind = "phev" THEN "complete" ELSE "fewer_attributes")

Fleets ==
    UNION {{[n \in 1..size |->
                Vehicle(n, c[n].kind, c[n].services, KindSnapshot(c[n].kind))] :
            c \in [1..size -> VehicleChoices]} : size \in 1..MaxVehicles}

\* Any fleet of up to MaxVehicles vehicles, under any unit system.
InitFleet ==
    /\ units_name \in UnitSystems
    /\ vehicles \in Fleets
    /\ attribute_info = None
    /\ entities = <<>>
    /\ polled = {}
    /\ last = NoOp

NextFleet ==
    \/ async_setup_entry
    \/ ReadProperties

SpecFleet == InitFleet /\ [][NextFleet]_vars


----------------------------------------------------------------------------
(* Properties.                                                             *)

\* The entity the last update() was called on.
PolledEntity == entities[last.idx]

\* The state sub-object an entity's service tag selects.
SelectedSource(service) ==
    CASE service = None -> "state"
      [] service = SERVICE_LAST_TRIP -> "last_trip"
      [] service = SERVICE_ALL_TRIPS -> "all_trips"
      [] service = SERVICE_CHARGING_PROFILE -> "charging_profile"
      [] OTHER -> "none"

SelectedObject(self) ==
    LET vehicle_state == vehicles[self._vehicle].state
    IN IF self._service = None THEN vehicle_state
       ELSE vehicle_state.f[SelectedSource(self._service)]

\* C1: after every update(), under the metric and the imperial table alike,
\* the object the raw field was read from is the one the entity's service
\* tag selects: the vehicle state for no tag, state.last_trip for LAST_TRIP,
\* state.all_trips for ALL_TRIPS, state.charging_profile for
\* CHARGING_PROFILE.
C1_ReadsSelectedObject ==
    last.op = "update" => last.source = SelectedSource(PolledEntity._service)

\* The names a flattened key of the factory was concatenated from, as the
\* factory lists them: <<base, sub-field>> and <<base, timer number, sub-field>>.
AggregateSubFields(base) ==
    {"community_average", "community_high", "community_low", "user_average"}
    \cup (IF base = "chargecycle_range"
          THEN {"user_current_charge_cycle", "user_high"} ELSE {})
    \cup (IF base = "total_electric_distance" THEN {"user_total"} ELSE {})

AggregateBases ==
    {"average_combined_consumption", "average_electric_consumption",
     "average_recuperation", "chargecycle_range", "total_electric_distance"}

TimerSubFields == {"timer_enabled", "departure_time", "weekdays"}

\* Every flattened key of the factory with the names it is concatenated
\* from.
AllTripsKeys ==
    {<<p[1] \o "_" \o p[2], p>> :
        p \in {q \in AggregateBases \X UNION {AggregateSubFields(b) : b \in AggregateBases} :
                  q[2] \in AggregateSubFields(q[1])}}

ChargingProfileKeys ==
    {<<p[1] \o "_" \o p[2], p>> :
        p \in {"preferred_charging_window"} \X {"start_time", "end_time"}}
    \cup {<<p[1] \o "_" \o p[2] \o "_" \o p[3], p>> :
             p \in {"pre_entry_climatization_timer"} \X {"1", "2", "3"} \X TimerSubFields}

FlattenedFrom(self) ==
    IF self._service = SERVICE_ALL_TRIPS
    THEN {e[2] : e \in {x \in AllTripsKeys : x[1] = self._attribute}}
    ELSE IF self._service = SERVICE_CHARGING_PROFILE
    THEN {e[2] : e \in {x \in ChargingProfileKeys : x[1] = self._attribute}}
    ELSE {}

\* The value at the names p of the object obj, PyNone when a name is absent.
ValueAt(obj, p) ==
    IF ~HasAttr(obj, p[1]) THEN PyNone
    ELSE IF Len(p) = 2
    THEN IF HasAttr(obj.f[p[1]], p[2]) THEN obj.f[p[1]].f[p[2]] ELSE PyNone
    ELSE LET timers == obj.f[p[1]]
             id == "timer" \o p[2]
         IN IF timers.t = "dict" /\ id \in DOMAIN timers.items
               /\ HasAttr(timers.items[id], p[3])
            THEN timers.items[id].f[p[3]]
            ELSE PyNone

\* C2: update() on an entity with a flattened key of the factory reads the
\* base field, the timer and the sub-field the key was concatenated from,
\* on the sub-object of its service, and when the snapshot holds that
\* sub-field the entity's state is its value; under either unit table.
C2_FlatteningRoundTrip ==
    last.op = "update" =>
        \A p \in FlattenedFrom(PolledEntity) :
            /\ last.source = SelectedSource(PolledEntity._service)
            /\ last.path \in {p, <<p[1]>>, <<p[1], "timer" \o p[2]>>,
                              <<p[1], "timer" \o p[2], p[Len(p)]>>}
            /\ ValueAt(SelectedObject(PolledEntity), p) # PyNone =>
                   /\ last.outcome = "ok"
                   /\ PolledEntity._state = ValueAt(SelectedObject(PolledEntity), p)

\* The number of entities of vehicle v with this service tag and key.
Count(v, service, key) ==
    Cardinality({i \in 1..Len(entities) :
                    /\ entities[i]._vehicle = v
                    /\ entities[i]._service = service
                    /\ entities[i]._attribute = key})

Range(list) == {list[i] : i \in 1..Len(list)}

Lists(v, service) == service \in Range(vehicles[v].available_state_services)

\* The attributes the state object of a service reports for vehicle v.
ServiceObject(service) ==
    CASE service = SERVICE_LAST_TRIP -> "last_trip"
      [] service = SERVICE_ALL_TRIPS -> "all_trips"
      [] service = SERVICE_CHARGING_PROFILE -> "charging_profile"
      [] service = SERVICE_DESTINATIONS -> "destinations"

Reported(v, service) ==
    Range(available_attributes(vehicles[v].state.f[ServiceObject(service)]))

\* An attribute whose value is a statistical aggregate.
IsAggregate(service, attribute) ==
    service = SERVICE_ALL_TRIPS /\ attribute \in AggregateBases

\* One entity per reported attribute of the service, an aggregate being
\* replaced by one entity per sub-field.
OnePerAttribute(v, service) ==
    /\ \A a \in Reported(v, service) :
          IF IsAggregate(service, a)
          THEN /\ Count(v, service, a) = 0
               /\ \A sub \in AggregateSubFields(a) : Count(v, service, a \o "_" \o sub) = 1
          ELSE Count(v, service, a) = 1
    /\ \A i \in 1..Len(entities) :
          entities[i]._vehicle = v /\ entities[i]._service = service =>
              \E a \in Reported(v, service) :
                  \/ ~IsAggregate(service, a) /\ entities[i]._attribute = a
                  \/ /\ IsAggregate(service, a)
                     /\ \E sub \in AggregateSubFields(a) :
                           entities[i]._attribute = a \o "_" \o sub

TimerBase == "pre_entry_climatization_timer"

\* The entities of vehicle v made for the climatization timers.
TimerEntities(v) ==
    {i \in 1..Len(entities) :
        /\ entities[i]._vehicle = v
        /\ entities[i]._service = SERVICE_CHARGING_PROFILE
        /\ HasAt(entities[i]._attribute, 1, TimerBase \o "_")}

\* The ids of the timers the snapshot of vehicle v holds.
ReportedTimers(v) ==
    LET profile == vehicles[v].state.f["charging_profile"]
    IN IF HasAttr(profile, TimerBase) /\ profile.f[TimerBase].t = "dict"
       THEN DOMAIN profile.f[TimerBase].items
       ELSE {}

\* Exactly the nine entities timer 1..3 x sub-field for every vehicle that
\* lists the charging profile and reports the timer attribute.
NineTimerEntities ==
    \A v \in 1..Len(vehicles) :
        Lists(v, SERVICE_CHARGING_PROFILE)
        /\ TimerBase \in Reported(v, SERVICE_CHARGING_PROFILE) =>
            /\ Cardinality(TimerEntities(v)) = 9
            /\ \A n \in {"1", "2", "3"}, sub \in TimerSubFields :
                  Count(v, SERVICE_CHARGING_PROFILE,
                        TimerBase \o "_" \o n \o "_" \o sub) = 1

\* The last update() was of a timer entity whose timer the snapshot
\* reports: the state is the named sub-field of that timer.
TimerStateRead ==
    last.op = "update" =>
        \A p \in FlattenedFrom(PolledEntity) :
            Len(p) = 3 /\ ValueAt(SelectedObject(PolledEntity), p) # PyNone =>
                /\ last.outcome = "ok"
                /\ PolledEntity._state = ValueAt(SelectedObject(PolledEntity), p)

\* C4: async_setup_entry makes exactly nine entities for a reported
\* pre_entry_climatization_timer attribute, however many timers the snapshot
\* holds, and update() of such an entity sets its state to the named
\* sub-field of the timer with id "timer<N>" of the snapshot it reads.
C4_TimerExpansion ==
    [][/\ attribute_info = None /\ attribute_info' # None => NineTimerEntities'
       /\ TimerStateRead']_vars

\* Nine timer entities, a snapshot that holds timer1 alone, and timer 1's
\* departure time read into the state.
C4_Witness ==
    /\ Cardinality(TimerEntities(1)) = 9
    /\ ReportedTimers(1) = {"timer1"}
    /\ last.op = "update"
    /\ last.attribute = "pre_entry_climatization_timer_1_departure_time"
    /\ PolledEntity._state = Str("01:01")


\* The (vehicle, service, attribute) triple of an entity.
Triple(self) == <<vehicles[self._vehicle].vin, self._service, self._attribute>>

\* C5: the unique id of every entity is "vin-attr" for a status entity and
\* "vin-service-attr", the service in lower case, for a service-tagged one,
\* so a function of the triple (VIN, service, attribute) alone; and any two
\* entities of one setup whose triples differ have different unique ids.
C5_UniqueIdCollisionFree ==
    /\ \A i \in 1..Len(entities) :
          LET self == entities[i]
              vin == vehicles[self._vehicle].vin
          IN unique_id(self) =
                 IF self._service = None THEN vin \o "-" \o self._attribute
                 ELSE vin \o "-" \o Lower(self._service) \o "-" \o self._attribute
    /\ \A i, j \in 1..Len(entities) :
          i < j /\ Triple(entities[i]) # Triple(entities[j]) =>
              unique_id(entities[i]) # unique_id(entities[j])

\* Two vehicles that both have a status entity and a service-tagged entity
\* for the same attribute name, four different ids among them.
C5_Witness ==
    /\ Len(vehicles) = 2
    /\ \E i, j, k, l \in 1..Len(entities) :
          /\ entities[i]._vehicle = 1 /\ entities[i]._service = None
          /\ entities[j]._vehicle = 2 /\ entities[j]._service = None
          /\ entities[i]._attribute = entities[j]._attribute
          /\ entities[k]._vehicle = 1 /\ entities[k]._service = SERVICE_LAST_TRIP
          /\ entities[l]._vehicle = 2 /\ entities[l]._service = SERVICE_LAST_TRIP
          /\ entities[k]._attribute = entities[l]._attribute
          /\ Cardinality({unique_id(entities[n]) : n \in {i, j, k, l}}) = 4

\* What the snapshot lacks of the field an entity refers to: the attribute
\* on the sub-object of its service, a sub-field of the attribute (or of
\* the timer), the timer with the key's number; "none" when it is there.
MissingKind(self) ==
    LET obj == SelectedObject(self)
        keys == FlattenedFrom(self)
    IN IF keys = {}
       THEN IF HasAttr(obj, self._attribute) THEN "none" ELSE "attribute"
       ELSE LET p == CHOOSE q \in keys : TRUE
            IN IF ~HasAttr(obj, p[1]) THEN "attribute"
               ELSE IF Len(p) = 2
               THEN IF HasAttr(obj.f[p[1]], p[2]) THEN "none" ELSE "sub_field"
               ELSE IF "timer" \o p[2] \notin DOMAIN obj.f[p[1]].items THEN "timer"
               ELSE IF HasAttr(obj.f[p[1]].items["timer" \o p[2]], p[3]) THEN "none"
               ELSE "sub_field"

\* C6 as stated: an update() of an entity whose field the snapshot lacks
\* (the attribute, the sub-field or the timer) ends in a fault.
C6_MissingFieldRaises ==
    last.op = "update" /\ MissingKind(PolledEntity) # "none" =>
        last.outcome = "raised"

\* C6 amended: an update() of an entity whose attribute or sub-field the
\* snapshot lacks ends in a fault; when it is the timer with the key's
\* number that the snapshot lacks, update() returns normally.
C6_MissingFieldRaisesUnlessTimer ==
    last.op = "update" =>
        /\ MissingKind(PolledEntity) \in {"attribute", "sub_field"} =>
               last.outcome = "raised"
        /\ MissingKind(PolledEntity) = "timer" => last.outcome = "returned"

\* Under the metric table, a poll of an all-trips entity whose aggregate is
\* there without the sub-field of the key has raised.
C6_Witness ==
    /\ units_name = CONF_UNIT_SYSTEM_METRIC
    /\ last.op = "update"
    /\ last.attribute = "chargecycle_range_user_high"
    /\ MissingKind(PolledEntity) = "sub_field"
    /\ last.outcome = "raised"
    /\ PolledEntity._state = PyNone

\* What never changes of an entity once it is constructed.
Constructed(self) ==
    <<self._vehicle, self._attribute, self._service, unique_id(self), name(self),
      unit_of_measurement(self), self._attribute_info>>

\* C7: the step that constructs the entities leaves every state None; every
\* later step (a poll, a change of snapshot, a read of the properties) keeps
\* the list of entities and each entity's attribute key, service tag,
\* unique id, name, unit of measurement and table, and changes the state of
\* entity i only when the step is update() on entity i.
C7_OnlyUpdateMutates ==
    [][/\ attribute_info = None =>
              \A i \in 1..Len(entities') : state(entities'[i]) = PyNone
       /\ attribute_info # None =>
              /\ attribute_info' = attribute_info
              /\ Len(entities') = Len(entities)
              /\ \A i \in 1..Len(entities) :
                    /\ Constructed(entities'[i]) = Constructed(entities[i])
                    /\ state(entities'[i]) # state(entities[i]) =>
                           last'.op = "update" /\ last'.idx = i]_vars

\* An entity holds a value from an earlier poll after the snapshot it was
\* read from has been replaced by one with another value.
C7_Witness ==
    /\ last.op = "none"
    /\ \E i \in 1..Len(entities) :
          /\ entities[i]._attribute = "mileage"
          /\ state(entities[i]) # PyNone
          /\ HasAttr(vehicles[1].state, "mileage")
          /\ state(entities[i]) # vehicles[1].state.f["mileage"]

\* The distance and volume units among the units of a table.
DistanceVolumeUnits(table) ==
    {table[k][2] : k \in DOMAIN table}
    \cap {LENGTH_KILOMETERS, LENGTH_MILES, VOLUME_LITERS, VOLUME_GALLONS}

\* C8: after setup the table selected is the one whose distance and volume
\* units are miles and gallons when the host's unit system is named
\* imperial, and the one whose units are kilometres and litres under any
\* other name; every entity of every vehicle and service holds that table,
\* and its unit of measurement is that table's unit for its key (None for a
\* key the table lacks).
C8_UnitSelection ==
    attribute_info # None =>
        /\ DistanceVolumeUnits(Table(attribute_info)) =
               IF units_name = CONF_UNIT_SYSTEM_IMPERIAL
               THEN {LENGTH_MILES, VOLUME_GALLONS}
               ELSE {LENGTH_KILOMETERS, VOLUME_LITERS}
        /\ \A i \in 1..Len(entities) :
              LET self == entities[i]
                  table == Table(attribute_info)
              IN /\ self._attribute_info = attribute_info
                 /\ unit_of_measurement(self) =
                        IF self._attribute \in DOMAIN table
                        THEN table[self._attribute][2] ELSE None

\* Under a unit system that is neither imperial nor metric, two vehicles
\* with entities of different services, in kilometres and litres.
C8_Witness ==
    /\ units_name \notin {CONF_UNIT_SYSTEM_IMPERIAL, CONF_UNIT_SYSTEM_METRIC}
    /\ attribute_info # None
    /\ \E i, j \in 1..Len(entities) :
          /\ entities[i]._vehicle = 1 /\ entities[j]._vehicle = 2
          /\ entities[i]._service = None /\ entities[i]._attribute = "remaining_fuel"
          /\ unit_of_measurement(entities[i]) = VOLUME_LITERS
          /\ entities[j]._service = SERVICE_ALL_TRIPS
          /\ entities[j]._attribute = "total_electric_distance_user_total"
          /\ unit_of_measurement(entities[j]) = LENGTH_KILOMETERS

\* C9: for an entity whose key the selected merged table lacks the unit of
\* measurement is None and the icon is None; the icon of charging_level_hv
\* alone is not the table's but a battery-level icon; every other key of
\* the table gets the table's icon; and each key of the generic table has
\* the generic entry in the metric and in the imperial merged table, so an
\* entity with such a key has the generic unit.
C9_LookupDefaultsToNone ==
    /\ \A k \in DOMAIN ATTR_TO_HA_GENERIC :
          /\ ATTR_TO_HA_METRIC[k] = ATTR_TO_HA_GENERIC[k]
          /\ ATTR_TO_HA_IMPERIAL[k] = ATTR_TO_HA_GENERIC[k]
    /\ attribute_info # None =>
          \A i \in 1..Len(entities) :
              LET self == entities[i]
                  table == Table(attribute_info)
              IN /\ self._attribute \notin DOMAIN table =>
                        unit_of_measurement(self) = None
                 /\ self._attribute \in DOMAIN ATTR_TO_HA_GENERIC =>
                        unit_of_measurement(self) = ATTR_TO_HA_GENERIC[self._attribute][2]
                 /\ IF self._attribute = "charging_level_hv"
                    THEN HasAt(icon(self), 1, "mdi:battery")
                    ELSE icon(self) = IF self._attribute \in DOMAIN table
                                      THEN table[self._attribute][1] ELSE None

\* Entities with a key no table has, with a key of the generic table, and
\* the battery level, after setup.
C9_Witness ==
    /\ attribute_info # None
    /\ \E i, j, k \in 1..Len(entities) :
          /\ entities[i]._attribute \notin DOMAIN Table(attribute_info)
          /\ icon(entities[i]) = None /\ unit_of_measurement(entities[i]) = None
          /\ entities[j]._attribute \in DOMAIN ATTR_TO_HA_GENERIC
          /\ icon(entities[j]) # None
          /\ entities[k]._attribute = "charging_level_hv"
          /\ icon(entities[k]) # Table(attribute_info)["charging_level_hv"][1]

\* The raw value of the field an entity refers to, on the sub-object of its
\* service; PyNone when the snapshot lacks it.
RawValue(self) ==
    LET obj == SelectedObject(self)
        keys == FlattenedFrom(self)
    IN IF keys = {}
       THEN IF HasAttr(obj, self._attribute) THEN obj.f[self._attribute] ELSE PyNone
       ELSE ValueAt(obj, CHOOSE q \in keys : TRUE)

\* The integers nearest to num / den, for num >= 0 and den > 0.
Nearest(num, den) ==
    {n \in {num \div den, num \div den + 1} :
        \A m \in {num \div den, num \div den + 1} :
            (IF n * den >= num THEN n * den - num ELSE num - n * den)
                <= (IF m * den >= num THEN m * den - num ELSE num - m * den)}

\* The state update() must leave for a numeric raw value, in tenths, under
\* the unit of the entity.
Expected(unit, tenths) ==
    IF unit = VOLUME_GALLONS
    THEN {Num(10 * n) : n \in Nearest(tenths * 2642, 10 * 10000)}
    ELSE IF unit = LENGTH_MILES
    THEN {Num(10 * n) : n \in Nearest(tenths * 621371, 10 * 1000000)}
    ELSE {Num(tenths)}

\* C10: after update() of an entity whose raw value is a number, the state
\* is the integer nearest to the value converted from litres to gallons
\* when the entity's unit is gallons, from kilometres to miles when it is
\* miles, and the raw value itself under any other unit.
C10_ConvertsAndRounds ==
    last.op = "update" /\ RawValue(PolledEntity).t = "num" =>
        /\ last.outcome = "ok"
        /\ state(PolledEntity) \in
               Expected(unit_of_measurement(PolledEntity), RawValue(PolledEntity).tenths)

\* C11: a step that is update() on a climatization-timer entity, taken when
\* the snapshot's timer collection holds no timer with the id "timer<N>" of
\* the entity's key, returns normally and leaves the entity's state what it
\* was before the call: None if never set, otherwise the value of an
\* earlier poll.
C11_MissingTimerKeepsState ==
    [][\A i \in 1..Len(entities) :
           /\ last'.op = "update" /\ last'.idx = i
           /\ MissingKind(entities[i]) = "timer"
           => /\ last'.outcome = "returned"
              /\ state(entities'[i]) = state(entities[i])
              /\ entities' = entities]_vars

\* A timer entity polled after its timer was removed from the snapshot: the
\* call returned and the state is still the departure time read earlier.
C11_Witness ==
    /\ last.op = "update"
    /\ last.attribute = "pre_entry_climatization_timer_2_departure_time"
    /\ last.outcome = "returned"
    /\ ReportedTimers(1) = {"timer1"}
    /\ MissingKind(PolledEntity) = "timer"
    /\ state(PolledEntity).t = "str"

====
